---- MODULE Spec2Model ----
(***************************************************************************)
(* Model of jetstream2meili: the event loops of the posts, posts-and-likes *)
(* and likes binaries, the LikesAccumulator and the EditDocumentsByFunction*)
(* translation of src/bin/posts-and-likes.rs.                              *)
(***************************************************************************)
EXTENDS Integers, Sequences, FiniteSets, TLC

VARIABLES
    bin,                \* which program runs: "acc", "editions", "posts", "posts-and-likes",
                        \* "likes", "main"
    status,             \* "running", "closed" (Ok(())), "failed" (Err returned by ?), "panicked"
    calls,              \* the outbound calls made by the last step, in order
    event,              \* the event the last step received (<<>> before the first)
    likes_accumulator,  \* posts-and-likes.rs: LikesAccumulator.likes, delta -> set of ids
    bumps,              \* history: per key, the +1/-1 bumps applied since the last drain
    flushed_likes,      \* history: the accumulator taken by the last drain
    flushed_bumps,      \* history: bumps as they were when the last drain happened
    editions,           \* the Vec<EditDocumentsByFunction> built by the last into_editions
    ids_in,             \* SpecEditions: the accumulator handed to into_editions
    cache,              \* posts.rs: HashMap<String, Option<BskyPost>>
    window,             \* history (posts.rs): per key, the intents of its events since the last flush
    flushed,            \* history: TRUE when the last step drained the coalescer / touched set
    pal_cache,          \* posts-and-likes.rs: Vec<BskyPost>
    cache_sent,         \* posts-and-likes.rs: usize counter of primary flushes
    outdated,           \* likes.rs: HashSet<String> of touched keys
    redis,              \* likes.rs: the count cache, key -> count (absent keys not in DOMAIN)
    accepted,           \* history: per key, the like events accepted for it (lookup gave Some)
    emitted,            \* history: per key, the sum of the diffs of the edit requests sent for it
    seen,               \* history (likes.rs): per key, the store count seen at its first accepted like
    posts_sent          \* main.rs: counter of the posts sent

vars == <<bin, status, calls, event, likes_accumulator, bumps, flushed_likes,
          flushed_bumps, editions, ids_in, cache, window, flushed, pal_cache, cache_sent,
          outdated, redis, accepted, emitted, seen, posts_sent>>

\* the locals of the three event loops
posts_vars == <<cache, window>>
pal_vars == <<pal_cache, cache_sent>>
likes_vars == <<outdated, redis>>
\* the accumulator and what is recorded about it
acc_vars == <<likes_accumulator, bumps, flushed_likes, flushed_bumps, editions>>
\* what is recorded about the whole run
hist_vars == <<accepted, emitted, seen>>

----------------------------------------------------------------------------
(* Bounds of the model *)

\* bumps applied to one key between two drains (SpecAcc)
MaxBumps == 3
\* events for one key within one flush window (SpecPosts)
MaxWindowEvents == 3
\* likes accepted for one key between two drains (SpecPal)
MaxLikes == 2
\* primary flushes of posts-and-likes.rs that are counted: cache_sent at this
\* value stands for every larger value (it is above DrainAt and the counter
\* only grows, so cache_sent == 500 is false from there on)
MaxCacheSent == 501
\* largest likes count a looked-up document carries (SpecLikes)
MaxStoreLikes == 1
\* largest count the count cache reaches for one key (SpecLikes)
MaxCount == 3
\* largest bucket size handed to into_editions (SpecEditions)
MaxIds == 602
\* posts that main.rs sends (SpecMain)
MaxPostsSent == 4


\* record keys of the posts that like events refer to
Keys == {"p1", "p2"}
\* record keys of the post events of posts.rs
PostKeys == {"p1", "p2", "p3"}
\* post payloads
Texts == {"t1", "t2"}

\* itertools chunks(300) in EditDocumentsByFunction::new
ChunkSize == 300

\* the value of cache_sent at which the accumulator is drained
DrainAt == 500

\* Args::payload_size, the batch threshold of the pipelines, as given on the
\* command line: --payload-size 2
payload_size == 2

----------------------------------------------------------------------------
(* Generic helpers *)

Min(S) == CHOOSE x \in S : \A y \in S : x <= y

Range(s) == {s[i] : i \in DOMAIN s}

RECURSIVE SumSeq(_)
SumSeq(s) == IF s = <<>> THEN 0 ELSE Head(s) + SumSeq(Tail(s))

\* the sequences that enumerate the finite set S once each: the possible
\* iteration orders of a HashSet / HashMap
Orders(S) == {o \in [1..Cardinality(S) -> S] : Range(o) = S}

\* s restricted to the elements of S, order kept
Filter(s, S) == SelectSeq(s, LAMBDA x : x \in S)

----------------------------------------------------------------------------
(* LikesAccumulator, posts-and-likes.rs *)

\* LikesAccumulator::default(): an empty BTreeMap
LikesAccumulator_default == [d \in {} |-> {}]

\* BTreeMap::entry(d).or_default().insert(id)
EntryInsert(likes, d, id) ==
    [x \in (DOMAIN likes) \cup {d} |->
        IF x = d
        THEN (IF d \in DOMAIN likes THEN likes[d] ELSE {}) \cup {id}
        ELSE likes[x]]

\* the closures handed to change: increase is |like| like + 1, decrease
\* (commented out in the source) is |like| like - 1
Apply(f, like) == IF f = "increase" THEN like + 1 ELSE like - 1

\* mutant: the id is inserted under the new delta and left in its old bucket
change_no_remove(likes, id, f) ==
    LET found == {like \in DOMAIN likes : id \in likes[like]}
    IN  IF found # {}
        THEN LET like == Min(found)
             IN  IF Apply(f, like) # 0
                 THEN EntryInsert(likes, Apply(f, like), id)
                 ELSE [likes EXCEPT ![like] = @ \ {id}]
        ELSE EntryInsert(likes, 1, id)

\* LikesAccumulator::change: find the first bucket (ascending delta) holding
\* id; remove id from it and re-insert under f(like) unless that is 0; an id
\* held by no bucket is inserted under 1
change(likes, id, f) ==
    LET found == {like \in DOMAIN likes : id \in likes[like]}
    IN  IF found # {}
        THEN LET like == Min(found)
                 removed == [likes EXCEPT ![like] = @ \ {id}]
             IN  IF Apply(f, like) # 0
                 THEN EntryInsert(removed, Apply(f, like), id)
                 ELSE removed
        ELSE EntryInsert(likes, 1, id)

increase(likes, id) == change(likes, id, "increase")

decrease(likes, id) == change(likes, id, "decrease")

----------------------------------------------------------------------------
(* EditDocumentsByFunction, posts-and-likes.rs *)

\* itertools chunks(n): consecutive groups of n items, the last one shorter;
\* no group for an empty iterator
RECURSIVE Chunks(_, _)
Chunks(s, n) ==
    IF s = <<>> THEN <<>>
    ELSE IF Len(s) <= n THEN <<s>>
    ELSE <<SubSeq(s, 1, n)>> \o Chunks(SubSeq(s, n + 1, Len(s)), n)

\* the filter string "rkey IN [a,b,c]" as its sequence of tokens: the opening
\* text, the ids with a "," pushed after each id that has a successor, and
\* the closing bracket
JoinIds(s) ==
    [i \in 1..(IF Len(s) = 0 THEN 0 ELSE 2 * Len(s) - 1) |->
        IF i % 2 = 1 THEN s[(i + 1) \div 2] ELSE ","]

MakeFilter(chunk) == <<"rkey IN [">> \o JoinIds(chunk) \o <<"]">>

\* the ids a filter lists: the tokens between the brackets that are no separator
FilterIds(filter) ==
    [i \in 1..((Len(filter) - 1) \div 2) |-> filter[2 * i]]

FilterKeys(filter) == Range(FilterIds(filter))

\* mutant: every chunk but the first is dropped
EditDocumentsByFunction_new_first_chunk(ids, diff) ==
    LET cs == Chunks(ids, ChunkSize)
    IN  [i \in 1..(IF Len(cs) = 0 THEN 0 ELSE 1) |->
            [context |-> [diff |-> diff], filter |-> MakeFilter(cs[i])]]

\* mutant: the diff of the operation is always 1
EditDocumentsByFunction_new_diff_one(ids, diff) ==
    LET cs == Chunks(ids, ChunkSize)
    IN  [i \in 1..Len(cs) |->
            [context |-> [diff |-> 1], filter |-> MakeFilter(cs[i])]]

\* mutant: an empty set of ids yields one operation with an empty filter list
EditDocumentsByFunction_new_never_none(ids, diff) ==
    LET cs == IF ids = <<>> THEN <<ids>> ELSE Chunks(ids, ChunkSize)
    IN  [i \in 1..Len(cs) |->
            [context |-> [diff |-> diff], filter |-> MakeFilter(cs[i])]]

\* EditDocumentsByFunction::new(ids, diff): one operation per chunk of 300
\* ids, each with the filter over its chunk and context.diff = diff (the
\* function text is the same constant in every operation and is left out)
EditDocumentsByFunction_new(ids, diff) ==
    LET cs == Chunks(ids, ChunkSize)
    IN  [i \in 1..Len(cs) |->
            [context |-> [diff |-> diff], filter |-> MakeFilter(cs[i])]]

\* the deltas of the accumulator in ascending order (BTreeMap::into_iter)
RECURSIVE Ascending(_)
Ascending(S) ==
    IF S = {} THEN <<>> ELSE <<Min(S)>> \o Ascending(S \ {Min(S)})

RECURSIVE FlatMapNew(_, _, _)
FlatMapNew(likes, diffs, order) ==
    IF diffs = <<>> THEN <<>>
    ELSE EditDocumentsByFunction_new(Filter(order, likes[Head(diffs)]), Head(diffs))
         \o FlatMapNew(likes, Tail(diffs), order)

\* LikesAccumulator::into_editions: for each (diff, ids) in ascending diff,
\* the operations of EditDocumentsByFunction::new(ids, diff), concatenated.
\* order is the iteration order of the HashSets: each bucket is iterated in
\* the order its ids have in order.
into_editions(likes, order) == FlatMapNew(likes, Ascending(DOMAIN likes), order)

\* the delta bucket id sits in, 0 when it is in none
DeltaOf(likes, id) ==
    LET found == {d \in DOMAIN likes : id \in likes[d]}
    IN  IF found = {} THEN 0 ELSE Min(found)

AllIds(likes) == UNION {likes[d] : d \in DOMAIN likes}

----------------------------------------------------------------------------
(* Events of the jetstream subscription and results of outbound calls *)

post_collection == "app.bsky.feed.post"
like_collection == "app.bsky.feed.like"
other_collection == "app.bsky.graph.follow"

\* no event received yet
NoEvent == [kind |-> "none", collection |-> "", rkey |-> "", text |-> "", subject |-> <<>>]

\* JetstreamEvent::Identity / Account: not a Commit
NonCommitEvents ==
    {[kind |-> "identity", collection |-> "", rkey |-> "", text |-> "", subject |-> <<>>]}

\* CommitEvent::Create / Update carrying an AppBskyFeedPost record
PostEvents(keys, texts) ==
    {[kind |-> k, collection |-> post_collection, rkey |-> r, text |-> t, subject |-> <<>>] :
        k \in {"create", "update"}, r \in keys, t \in texts}

\* the subject uri of a like, as its '/'-separated segments:
\* at://did:plc:.../app.bsky.feed.post/<rkey>, or a text without any '/'
SubjectUris == {<<"at:", "", "did:plc:x", post_collection, r>> : r \in Keys} \cup {<<"nouri">>}

\* CommitEvent::Create carrying an AppBskyFeedLike record (an Update of a
\* like takes the same arm)
LikeEvents ==
    {[kind |-> "create", collection |-> like_collection, rkey |-> "l1", text |-> "",
      subject |-> u] : u \in SubjectUris}

\* CommitEvent::Create / Update carrying any other known record
OtherRecordEvents ==
    {[kind |-> "create", collection |-> other_collection, rkey |-> "f1", text |-> "",
      subject |-> <<>>]}

\* CommitEvent::Delete of a post
PostDeleteEvents(keys) ==
    {[kind |-> "delete", collection |-> post_collection, rkey |-> r, text |-> "",
      subject |-> <<>>] : r \in keys}

\* CommitEvent::Delete of a like or of another collection
OtherDeleteEvents ==
    {[kind |-> "delete", collection |-> c, rkey |-> "l1", text |-> "", subject |-> <<>>] :
        c \in {like_collection, other_collection}}

\* str::rsplit_once('/'): Some(the text after the last '/'), None without a '/'
rsplit_once(uri) == IF Len(uri) >= 2 THEN <<uri[Len(uri)]>> ELSE <<>>

\* what an awaited call returns: success, an error status answered by the
\* server, or a connection error
Results == {"ok", "status", "conn"}

\* what get_document returns: Ok(document), Err(Error::Meilisearch) with the
\* code DocumentNotFound, Err(Error::Meilisearch) with another code, or
\* another Err (a connection error)
LookupResults == {"found", "not_found", "status", "conn"}

Call(op, arg, result) == [op |-> op, arg |-> arg, result |-> result]

\* mutant: no error is converted, a document that is not found included
convert_invalid_request_to_none_strict(err) == "err"

\* convert_invalid_request_to_none: every Error::Meilisearch becomes Ok(None),
\* whatever its error code; any other error stays an Err
convert_invalid_request_to_none(err) ==
    IF err \in {"not_found", "status"} THEN "none" ELSE "err"

\* get_document(..).await.map(Some).or_else(convert_invalid_request_to_none):
\* "some", "none" or "err"
Lookup(result) ==
    IF result = "found" THEN "some" ELSE convert_invalid_request_to_none(result)

\* BskyPost::new: the document built from a post event (rkey and text; the
\* other fields are copied from the event in the same way)
BskyPost_new(e) == [rkey |-> e.rkey, text |-> e.text]

----------------------------------------------------------------------------
(* Initial values shared by the specifications *)

NoBumps == [k \in Keys |-> <<>>]

NoCounts == [k \in Keys |-> 0]

EmptyMap == [k \in {} |-> 0]

InitOf(b) ==
    /\ bin = b
    /\ status = "running"
    /\ calls = <<>>
    /\ event = NoEvent
    /\ likes_accumulator = LikesAccumulator_default
    /\ bumps = NoBumps
    /\ flushed_likes = LikesAccumulator_default
    /\ flushed_bumps = NoBumps
    /\ editions = <<>>
    /\ cache = EmptyMap
    /\ window = EmptyMap
    /\ flushed = FALSE
    /\ pal_cache = <<>>
    /\ cache_sent = 0
    /\ outdated = {}
    /\ redis = EmptyMap
    /\ accepted = NoCounts
    /\ emitted = NoCounts
    /\ seen = EmptyMap
    /\ posts_sent = 0

----------------------------------------------------------------------------
(* SpecAcc: a LikesAccumulator driven through its methods *)

\* likes_accumulator.increase(id) / likes_accumulator.decrease(id)
AccBump(id, f) ==
    /\ bin = "acc"
    /\ Len(bumps[id]) < MaxBumps
    /\ likes_accumulator' = change(likes_accumulator, id, f)
    /\ bumps' = [bumps EXCEPT ![id] = Append(@, Apply(f, 0))]
    /\ flushed' = FALSE
    /\ flushed_likes' = LikesAccumulator_default
    /\ flushed_bumps' = NoBumps
    /\ editions' = <<>>
    /\ UNCHANGED <<bin, posts_sent, ids_in, status, calls, event, posts_vars, pal_vars, likes_vars, hist_vars>>

AccIncrease == \E id \in Keys : AccBump(id, "increase")

AccDecrease == \E id \in Keys : AccBump(id, "decrease")

\* mem::take(&mut likes_accumulator).into_editions()
AccDrain ==
    /\ bin = "acc"
    /\ ~flushed
    /\ \E order \in Orders(Keys) :
           editions' = into_editions(likes_accumulator, order)
    /\ likes_accumulator' = LikesAccumulator_default
    /\ flushed_likes' = likes_accumulator
    /\ flushed_bumps' = bumps
    /\ bumps' = NoBumps
    /\ flushed' = TRUE
    /\ UNCHANGED <<bin, posts_sent, ids_in, status, calls, event, posts_vars, pal_vars, likes_vars, hist_vars>>

InitAcc == InitOf("acc") /\ ids_in = LikesAccumulator_default

NextAcc == AccIncrease \/ AccDecrease \/ AccDrain

SpecAcc == InitAcc /\ [][NextAcc]_vars

\* C1: for every key, the delta bucket the key sits in (0 when it sits in
\* none) equals the arithmetic sum of the +1/-1 bumps applied to it since the
\* last drain, whatever their order.
C1_DeltaIsSumOfBumps ==
    bin = "acc" =>
        \A id \in Keys : DeltaOf(likes_accumulator, id) = SumSeq(bumps[id])

\* C2: no key is ever a member of the bucket of delta 0, and a key whose bumps
\* since the last drain sum to 0 is listed by no operation of that drain.
C2_ZeroCollapse ==
    bin = "acc" =>
        /\ (0 \in DOMAIN likes_accumulator => likes_accumulator[0] = {})
        /\ flushed =>
              \A id \in Keys :
                 SumSeq(flushed_bumps[id]) = 0 =>
                    \A i \in DOMAIN editions : id \notin FilterKeys(editions[i].filter)

\* the delta buckets of the accumulator that hold id
BucketsOf(likes, id) == {d \in DOMAIN likes : id \in likes[d]}

\* C20: every key is a member of at most one delta bucket of the accumulator,
\* and the operations of one drain list a key at most once, under one delta.
C20_BucketUniqueness ==
    \A id \in Keys :
       /\ Cardinality(BucketsOf(likes_accumulator, id)) <= 1
       /\ Cardinality({i \in DOMAIN editions : id \in FilterKeys(editions[i].filter)}) <= 1

\* a key was moved from the bucket of delta 1, which stays as an empty set,
\* to the bucket of delta 2
C20_Witness ==
    /\ bin = "acc"
    /\ \E id \in Keys :
           /\ Len(bumps[id]) = 2
           /\ BucketsOf(likes_accumulator, id) = {2}
    /\ 1 \in DOMAIN likes_accumulator /\ likes_accumulator[1] = {}

\* a drain emitted two keys under two different deltas, each once
C20_WitnessDrain ==
    /\ bin = "acc" /\ flushed
    /\ Len(editions) = 2
    /\ editions[1].context.diff # editions[2].context.diff
    /\ FilterKeys(editions[1].filter) \cup FilterKeys(editions[2].filter) = Keys

\* C21: the operations of a drain each list at least one key, also when the
\* drained accumulator has buckets left as empty sets: there is one operation
\* per non-empty bucket (the buckets here are below the chunk size), and none
\* at all when the accumulator holds no key.
C21_NoEmptyOperation ==
    (bin = "acc" /\ flushed) =>
        /\ \A i \in DOMAIN editions : Len(FilterIds(editions[i].filter)) >= 1
        /\ Len(editions) =
              Cardinality({d \in DOMAIN flushed_likes : flushed_likes[d] # {}})
        /\ AllIds(flushed_likes) = {} => editions = <<>>

\* a drain of an accumulator with an empty and a non-empty bucket gave one
\* operation
C21_Witness ==
    /\ bin = "acc" /\ flushed
    /\ \E d \in DOMAIN flushed_likes : flushed_likes[d] = {}
    /\ \E d \in DOMAIN flushed_likes : flushed_likes[d] # {}
    /\ Len(editions) = 1

\* a drain of an accumulator whose buckets are all empty sets gave no operation
C21_WitnessAllEmpty ==
    /\ bin = "acc" /\ flushed
    /\ DOMAIN flushed_likes # {}
    /\ AllIds(flushed_likes) = {}
    /\ editions = <<>>

----------------------------------------------------------------------------
(* SpecEditions: into_editions and EditDocumentsByFunction::new applied to *)
(* accumulators whose buckets are large enough to be chunked               *)

\* ids of the large accumulators: numbered record keys
Ids(from, n) == {from + i : i \in 1..n}

\* an accumulator with m ids under delta d and n further ids under d + 1
LargeAccumulator(d, m, n) ==
    [x \in {d, d + 1} |-> IF x = d THEN Ids(0, m) ELSE Ids(m, n)]

\* two iteration orders of the ids 1..n: ascending and descending
NumberedOrders(n) == {[i \in 1..n |-> i], [i \in 1..n |-> n + 1 - i]}

\* bucket sizes around the chunk boundaries: 0..3, 299..301 and 599..MaxIds
BucketSizes ==
    (0..3) \cup ((ChunkSize - 1)..(ChunkSize + 1)) \cup ((2 * ChunkSize - 1)..MaxIds)

InitEditions ==
    /\ InitOf("editions")
    /\ \E d \in 1..2, m \in BucketSizes, n \in 0..2 :
           ids_in = LargeAccumulator(d, m, n)

\* EditDocumentsByFunction::new(ids, diff) on one bucket of the accumulator
CallNew ==
    /\ bin = "editions"
    /\ calls = <<>>
    /\ \E diff \in DOMAIN ids_in, order \in NumberedOrders(Cardinality(AllIds(ids_in))) :
           /\ editions' = EditDocumentsByFunction_new(Filter(order, ids_in[diff]), diff)
           /\ calls' = <<[op |-> "new", diff |-> diff]>>
    /\ UNCHANGED <<bin, posts_sent, status, event, likes_accumulator, bumps, flushed_likes,
                   flushed_bumps, ids_in, flushed, posts_vars, pal_vars, likes_vars, hist_vars>>

\* ids_in.into_editions()
CallIntoEditions ==
    /\ bin = "editions"
    /\ calls = <<>>
    /\ \E order \in NumberedOrders(Cardinality(AllIds(ids_in))) :
           editions' = into_editions(ids_in, order)
    /\ calls' = <<[op |-> "into_editions", diff |-> 0]>>
    /\ UNCHANGED <<bin, posts_sent, status, event, likes_accumulator, bumps, flushed_likes,
                   flushed_bumps, ids_in, flushed, posts_vars, pal_vars, likes_vars, hist_vars>>

NextEditions == CallNew \/ CallIntoEditions

SpecEditions == InitEditions /\ [][NextEditions]_vars

CeilDiv(m, c) == (m + c - 1) \div c

\* C9: EditDocumentsByFunction::new on a key set of size M yields exactly
\* ceil(M / 300) operations, each filter lists between 1 and 300 keys, the
\* filters are pairwise disjoint and together list exactly the key set.
C9_Chunking ==
    (bin = "editions" /\ calls # <<>> /\ calls[1].op = "new") =>
        LET ids == ids_in[calls[1].diff]
            listed(i) == FilterIds(editions[i].filter)
        IN  /\ Len(editions) = CeilDiv(Cardinality(ids), ChunkSize)
            /\ \A i \in DOMAIN editions :
                   /\ Len(listed(i)) >= 1
                   /\ Len(listed(i)) <= ChunkSize
                   /\ Cardinality(Range(listed(i))) = Len(listed(i))
            /\ \A i, j \in DOMAIN editions :
                   i # j => Range(listed(i)) \cap Range(listed(j)) = {}
            /\ UNION {Range(listed(i)) : i \in DOMAIN editions} = ids

\* a key set of more than 600 keys was split into three operations
C9_Witness ==
    /\ bin = "editions" /\ calls # <<>> /\ calls[1].op = "new"
    /\ Cardinality(ids_in[calls[1].diff]) > 2 * ChunkSize
    /\ Len(editions) = 3
    /\ Len(FilterIds(editions[3].filter)) < ChunkSize

\* the sum of the diffs of the operations (context, keys listed) that list id
RECURSIVE EmittedDiff(_, _)
EmittedDiff(ops, id) ==
    IF ops = <<>> THEN 0
    ELSE (IF id \in Head(ops).keys THEN Head(ops).context.diff ELSE 0)
         + EmittedDiff(Tail(ops), id)

\* C10: for one drain, every operation carries as diff the delta of the bucket
\* all its keys came from, and for every key the diffs of the operations
\* listing it sum to the key's delta in the drained accumulator.
C10_TranslationExact ==
    (bin = "editions" /\ calls # <<>> /\ calls[1].op = "into_editions") =>
        /\ \A i \in DOMAIN editions :
               /\ editions[i].context.diff \in DOMAIN ids_in
               /\ FilterKeys(editions[i].filter) \subseteq ids_in[editions[i].context.diff]
        /\ LET ops == [i \in DOMAIN editions |->
                          [context |-> editions[i].context,
                           keys |-> FilterKeys(editions[i].filter)]]
           IN  \A id \in AllIds(ids_in) \cup {0} :
                  EmittedDiff(ops, id) = DeltaOf(ids_in, id)

\* two non-empty delta groups, one of them chunked, were translated
C10_Witness ==
    /\ bin = "editions" /\ calls # <<>> /\ calls[1].op = "into_editions"
    /\ \A d \in DOMAIN ids_in : ids_in[d] # {}
    /\ Len(editions) >= 3
    /\ editions[1].context.diff # editions[Len(editions)].context.diff

----------------------------------------------------------------------------
(* posts.rs: the upsert/tombstone coalescer *)

\* mutant: an entry already pending is kept (first write wins)
CacheInsert_keep_first(c, k, v) ==
    [x \in (DOMAIN c) \cup {k} |-> IF x \in DOMAIN c THEN c[x] ELSE v]

\* HashMap::insert(k, v): Some(post) is <<post>>, None is <<>>
CacheInsert(c, k, v) ==
    [x \in (DOMAIN c) \cup {k} |-> IF x = k THEN v ELSE c[x]]

\* mutant: the flush waits for one entry more than payload_size
FlushDue_one_late(c) == Cardinality(DOMAIN c) = payload_size + 1

\* cache.len() == payload_size.get()
FlushDue(c) == Cardinality(DOMAIN c) = payload_size

\* cache.drain(): the (rkey, Option<BskyPost>) pairs in the map's iteration order
Drain(c, order) == [i \in 1..Len(order) |-> <<order[i], c[order[i]]>>]

\* partition_additions_and_deletions: <<posts, deletions>>
RECURSIVE partition_additions_and_deletions(_)
partition_additions_and_deletions(ops) ==
    IF ops = <<>> THEN <<(<<>>), (<<>>)>>
    ELSE LET rest == partition_additions_and_deletions(Tail(ops))
             rkey == Head(ops)[1]
             post == Head(ops)[2]
         IN  IF post # <<>>
             THEN <<(<<post[1]>> \o rest[1]), rest[2]>>
             ELSE <<rest[1], (<<rkey>> \o rest[2])>>

\* mutant: the delete batch is sent before the upsert batch
PostsFlushCalls_delete_first(parts, r1, r2) ==
    LET posts == parts[1]
        deletions == parts[2]
        delete == IF deletions # <<>>
                  THEN <<Call("delete_documents", deletions, r2)>> ELSE <<>>
        stopped == deletions # <<>> /\ r2 # "ok"
        upsert == IF ~stopped /\ posts # <<>>
                  THEN <<Call("add_or_update", posts, r1)>> ELSE <<>>
    IN  delete \o upsert

\* the calls of one flush of posts.rs: add_or_update when posts is not empty,
\* then, unless that call returned an error, delete_documents when deletions
\* is not empty
PostsFlushCalls(parts, r1, r2) ==
    LET posts == parts[1]
        deletions == parts[2]
        upsert == IF posts # <<>> THEN <<Call("add_or_update", posts, r1)>> ELSE <<>>
        stopped == posts # <<>> /\ r1 # "ok"
        delete == IF ~stopped /\ deletions # <<>>
                  THEN <<Call("delete_documents", deletions, r2)>> ELSE <<>>
    IN  upsert \o delete

\* an Err returned by an SDK call leaves main through ?
AnyFailed(cs) == \E i \in DOMAIN cs : cs[i].result # "ok"

\* the pending window at the start of a step: empty after a flush
WindowNow == IF flushed THEN EmptyMap ELSE window

\* the window with one more intent recorded for key k
Record(w, k, intent) ==
    [x \in (DOMAIN w) \cup {k} |->
        IF x = k THEN (IF k \in DOMAIN w THEN w[k] ELSE <<>>) \o <<intent>> ELSE w[x]]

\* the last intent recorded for key k
LastIntent(k) == window[k][Len(window[k])]

\* the common tail of the Create/Update and Delete arms: the entry is
\* inserted, and when the map holds payload_size entries it is drained,
\* partitioned and sent
PostsInsertAndFlush(e, entry, intent) ==
    LET c1 == CacheInsert(cache, e.rkey, entry)
    IN  /\ e.rkey \in DOMAIN WindowNow => Len(WindowNow[e.rkey]) < MaxWindowEvents
        /\ event' = e
        /\ window' = Record(WindowNow, e.rkey, intent)
        /\ IF FlushDue(c1)
           THEN \E order \in Orders(DOMAIN c1), r1 \in Results, r2 \in Results :
                   /\ calls' = PostsFlushCalls(
                                   partition_additions_and_deletions(Drain(c1, order)), r1, r2)
                   /\ cache' = EmptyMap
                   /\ flushed' = TRUE
                   /\ status' = IF AnyFailed(calls') THEN "failed" ELSE "running"
           ELSE /\ calls' = <<>>
                /\ cache' = c1
                /\ flushed' = FALSE
                /\ status' = "running"
        /\ UNCHANGED <<bin, posts_sent, ids_in, acc_vars, pal_vars, likes_vars, hist_vars>>

\* CommitEvent::Create | Update with an AppBskyFeedPost record
PostsCreateOrUpdate ==
    /\ bin = "posts" /\ status = "running"
    /\ \E e \in PostEvents(PostKeys, Texts) :
           PostsInsertAndFlush(e, <<BskyPost_new(e)>>, <<"upsert", e.text>>)

\* CommitEvent::Delete with commit.collection == post_collection
PostsDelete ==
    /\ bin = "posts" /\ status = "running"
    /\ \E e \in PostDeleteEvents(PostKeys) :
           PostsInsertAndFlush(e, <<>>, <<"delete">>)

\* every other event: not a Commit, a Create/Update of another record, a
\* Delete of another collection
PostsIgnored ==
    /\ bin = "posts" /\ status = "running"
    /\ \E e \in NonCommitEvents \cup LikeEvents \cup OtherRecordEvents \cup OtherDeleteEvents :
           event' = e
    /\ calls' = <<>>
    /\ flushed' = FALSE
    /\ window' = WindowNow
    /\ UNCHANGED <<bin, posts_sent, status, cache, ids_in, acc_vars, pal_vars, likes_vars, hist_vars>>

\* receiver.recv_async() returns Err: the loop ends and main returns Ok(())
PostsClose ==
    /\ bin = "posts" /\ status = "running"
    /\ status' = "closed"
    /\ event' = NoEvent
    /\ calls' = <<>>
    /\ flushed' = FALSE
    /\ window' = WindowNow
    /\ UNCHANGED <<bin, posts_sent, cache, ids_in, acc_vars, pal_vars, likes_vars, hist_vars>>

InitPosts == InitOf("posts") /\ ids_in = LikesAccumulator_default

NextPosts == PostsCreateOrUpdate \/ PostsDelete \/ PostsIgnored \/ PostsClose

SpecPosts == InitPosts /\ [][NextPosts]_vars

\* the documents of the add_or_update calls and the ids of the
\* delete_documents calls of the last step
RECURSIVE ArgsOf(_, _)
ArgsOf(cs, op) ==
    IF cs = <<>> THEN <<>>
    ELSE (IF Head(cs).op = op THEN Head(cs).arg ELSE <<>>) \o ArgsOf(Tail(cs), op)

Upserted == ArgsOf(calls, "add_or_update")

Deleted == ArgsOf(calls, "delete_documents")

Count(s, P(_)) == Cardinality({i \in DOMAIN s : P(s[i])})

\* C3: a flush whose calls all succeed emits each key of the window exactly
\* once, by its last event: a key whose last event was a delete is in the
\* delete batch once and in no upserted document; a key whose last event was a
\* create/update is upserted once, with the text of that last event, and not
\* deleted; no other key is emitted, and nothing is emitted between flushes.
C3_LastIntentWins ==
    bin = "posts" =>
        /\ ~flushed => calls = <<>>
        /\ (flushed /\ status = "running") =>
              \A k \in PostKeys :
                 LET ups == Count(Upserted, LAMBDA d : d.rkey = k)
                     dels == Count(Deleted, LAMBDA r : r = k)
                 IN  IF k \notin DOMAIN window THEN ups = 0 /\ dels = 0
                     ELSE IF LastIntent(k) = <<"delete">> THEN dels = 1 /\ ups = 0
                     ELSE /\ ups = 1
                          /\ dels = 0
                          /\ \A i \in DOMAIN Upserted :
                                 Upserted[i].rkey = k => Upserted[i].text = LastIntent(k)[2]

\* a key created, updated with another text and then deleted in one window
\* was flushed as a delete only, together with the upsert of another key
C3_Witness ==
    /\ bin = "posts" /\ flushed /\ status = "running"
    /\ \E k \in DOMAIN window :
           /\ window[k] = << <<"upsert", "t1">>, <<"upsert", "t2">>, <<"delete">> >>
           /\ Deleted = <<k>>
    /\ Len(Upserted) = 1

\* C7: the coalescer is flushed in the very step whose event brings the
\* number of distinct pending keys to payload_size, be it an upsert or a
\* delete, and in no other step; the map is empty afterwards, and when the
\* calls succeed every pending key is emitted; a window of upserts only is
\* emitted as exactly one add_or_update call with all the documents and no
\* delete call.
C7_FlushAtThreshold ==
    bin = "posts" =>
        /\ flushed <=> Cardinality(DOMAIN window) = payload_size
        /\ Cardinality(DOMAIN cache) < payload_size
        /\ flushed =>
              /\ cache = EmptyMap
              /\ event.kind \in {"create", "update", "delete"}
              /\ status = "running" =>
                    {Upserted[i].rkey : i \in DOMAIN Upserted} \cup Range(Deleted)
                        = DOMAIN window
              /\ (status = "running" /\ \A k \in DOMAIN window : LastIntent(k) # <<"delete">>) =>
                    /\ Len(calls) = 1
                    /\ calls[1].op = "add_or_update"
                    /\ Len(calls[1].arg) = payload_size
                    /\ \A k \in DOMAIN window :
                           \E i \in DOMAIN calls[1].arg :
                              calls[1].arg[i] = [rkey |-> k, text |-> LastIntent(k)[2]]

\* upserts for p1 then p2 with threshold 2: one upsert batch with both
\* documents, sent in the step of p2, and no delete batch
C7_Witness ==
    /\ bin = "posts" /\ flushed /\ status = "running"
    /\ payload_size = 2
    /\ window = [k \in {"p1", "p2"} |-> << <<"upsert", "t1">> >>]
    /\ event.rkey = "p2" /\ event.kind = "create"
    /\ Len(calls) = 1 /\ calls[1].op = "add_or_update"
    /\ {calls[1].arg[i].rkey : i \in DOMAIN calls[1].arg} = {"p1", "p2"}
    /\ cache = EmptyMap

\* a flush was triggered by a delete event
C7_WitnessDelete ==
    /\ bin = "posts" /\ flushed /\ status = "running" /\ event.kind = "delete"

\* C12: a flush of the coalescer makes at most two calls. The keys whose
\* pending entry holds a document and the keys whose entry is a tombstone are
\* disjoint and together are the pending keys; when some entry holds a
\* document the first call is the one add_or_update, listing exactly those
\* documents, once each; when some entry is a tombstone the last call is the
\* one delete_documents, listing exactly those keys, once each, and it follows
\* the upsert call (it is not made when the upsert call returned an error,
\* which ends the process); an empty batch makes no call.
C12_FlushPartition ==
    (bin = "posts" /\ flushed) =>
        LET upKeys == {k \in DOMAIN window : LastIntent(k) # <<"delete">>}
            delKeys == {k \in DOMAIN window : LastIntent(k) = <<"delete">>}
            ups == {i \in DOMAIN calls : calls[i].op = "add_or_update"}
            dels == {i \in DOMAIN calls : calls[i].op = "delete_documents"}
            upsertFailed == upKeys # {} /\ calls[1].result # "ok"
        IN  /\ DOMAIN calls = ups \cup dels
            /\ ups = IF upKeys # {} THEN {1} ELSE {}
            /\ dels = IF delKeys # {} /\ ~upsertFailed THEN {Len(calls)} ELSE {}
            /\ \A i \in ups :
                   /\ {calls[i].arg[j].rkey : j \in DOMAIN calls[i].arg} = upKeys
                   /\ Len(calls[i].arg) = Cardinality(upKeys)
            /\ \A i \in dels :
                   /\ Range(calls[i].arg) = delKeys
                   /\ Len(calls[i].arg) = Cardinality(delKeys)
            /\ \A i \in ups, j \in dels :
                   /\ i < j
                   /\ {calls[i].arg[n].rkey : n \in DOMAIN calls[i].arg}
                          \cap Range(calls[j].arg) = {}
                   /\ {calls[i].arg[n].rkey : n \in DOMAIN calls[i].arg}
                          \cup Range(calls[j].arg) = DOMAIN window

\* a flush of one document and one tombstone: the upsert call, then the
\* delete call
C12_Witness ==
    /\ bin = "posts" /\ flushed /\ status = "running"
    /\ Len(calls) = 2
    /\ calls[1].op = "add_or_update" /\ Len(calls[1].arg) = 1
    /\ calls[2].op = "delete_documents" /\ Len(calls[2].arg) = 1
    /\ calls[1].arg[1].rkey # calls[2].arg[1]

\* a flush of tombstones only: the delete call alone
C12_WitnessDeletes ==
    /\ bin = "posts" /\ flushed /\ status = "running"
    /\ Len(calls) = 1
    /\ calls[1].op = "delete_documents" /\ Len(calls[1].arg) = payload_size

----------------------------------------------------------------------------
(* posts-and-likes.rs *)

\* what is recorded about the accumulator when a step does not drain it
NotDrained ==
    /\ flushed' = FALSE
    /\ flushed_likes' = LikesAccumulator_default
    /\ flushed_bumps' = NoBumps
    /\ editions' = <<>>

\* the requests of the loop over the editions: request.send().await? returns
\* Ok for every answer of the server, whatever its status, and Err for a
\* connection error, which ends the loop and main
RECURSIVE SendEditions(_, _)
SendEditions(eds, rs) ==
    IF eds = <<>> THEN <<>>
    ELSE <<Call("edit", Head(eds), Head(rs))>>
         \o (IF Head(rs) = "conn" THEN <<>> ELSE SendEditions(Tail(eds), Tail(rs)))

\* mutant: the accumulator is read but not emptied by the drain
mem_take_keep(likes) == likes

\* mutant: only the bucket of the lowest delta is taken
mem_take_first_bucket(likes) ==
    [d \in (DOMAIN likes) \ (IF DOMAIN likes = {} THEN {} ELSE {Min(DOMAIN likes)}) |->
        likes[d]]

\* mem::take(&mut likes_accumulator): what the variable holds after the take,
\* its Default, while the taken value goes to into_editions
mem_take(likes) == LikesAccumulator_default

\* the sum of the diffs of the edit requests among the calls cs that list key k
RECURSIVE SentDiff(_, _)
SentDiff(cs, k) ==
    IF cs = <<>> THEN 0
    ELSE (IF Head(cs).op = "edit" /\ k \in FilterKeys(Head(cs).arg.filter)
          THEN Head(cs).arg.context.diff ELSE 0)
         + SentDiff(Tail(cs), k)

\* mutant: the accumulator is drained after every primary flush
DrainDue_every_flush(sent, flushed_now) == flushed_now

\* cache_sent == 500, tested after every post event
DrainDue(sent, flushed_now) == sent = DrainAt

\* CommitEvent::Create | Update with an AppBskyFeedPost record: push to the
\* cache; at payload_size documents send them, count the flush and clear the
\* cache; then, if cache_sent == 500, take the accumulator and send its editions
\* (cache_sent += 1 is counted up to MaxCacheSent)
PalPost ==
    /\ bin = "posts-and-likes" /\ status = "running"
    /\ \E e \in PostEvents(Keys, {"t1"}) :
        LET cache1 == Append(pal_cache, BskyPost_new(e))
            full == Len(cache1) = payload_size
        IN  /\ event' = e
            /\ \E r1 \in (IF full THEN Results ELSE {"ok"}) :
               LET upsert == IF full THEN <<Call("add_or_update", cache1, r1)>> ELSE <<>>
                   stopped == full /\ r1 # "ok"
                   sent1 == IF full /\ ~stopped
                            THEN Min({cache_sent + 1, MaxCacheSent}) ELSE cache_sent
               IN  /\ pal_cache' = IF full /\ ~stopped THEN <<>> ELSE cache1
                   /\ cache_sent' = sent1
                   /\ IF ~stopped /\ DrainDue(sent1, full)
                      THEN \E order \in Orders(Keys) :
                           LET eds == into_editions(likes_accumulator, order)
                           IN  \E rs \in [1..Len(eds) -> Results] :
                               /\ likes_accumulator' = mem_take(likes_accumulator)
                               /\ bumps' = NoBumps
                               /\ flushed' = TRUE
                               /\ flushed_likes' = likes_accumulator
                               /\ flushed_bumps' = bumps
                               /\ editions' = eds
                               /\ calls' = upsert \o SendEditions(eds, rs)
                               /\ emitted' = [k \in Keys |-> emitted[k] + SentDiff(calls', k)]
                               /\ status' = IF \E i \in DOMAIN rs : rs[i] = "conn"
                                             THEN "failed" ELSE "running"
                      ELSE /\ NotDrained
                           /\ UNCHANGED <<likes_accumulator, bumps>>
                           /\ calls' = upsert
                           /\ status' = IF stopped THEN "failed" ELSE "running"
                           /\ UNCHANGED emitted
    /\ UNCHANGED <<bin, posts_sent, ids_in, posts_vars, likes_vars, accepted, seen>>

\* CommitEvent::Create | Update with an AppBskyFeedLike record: the rkey after
\* the last '/' of the subject uri (unwrap panics without a '/'), a lookup of
\* that post, and increase when the lookup gave Some
PalLike ==
    /\ bin = "posts-and-likes" /\ status = "running"
    /\ \E e \in LikeEvents :
        LET split == rsplit_once(e.subject)
        IN  /\ event' = e
            /\ NotDrained
            /\ IF split = <<>>
               THEN /\ status' = "panicked"
                    /\ calls' = <<>>
                    /\ UNCHANGED <<likes_accumulator, bumps, accepted>>
               ELSE \E lr \in LookupResults :
                    LET post_rkey == split[1]
                    IN  /\ calls' = <<Call("get_document", post_rkey, lr)>>
                        /\ status' = IF Lookup(lr) = "err" THEN "failed" ELSE "running"
                        /\ IF Lookup(lr) = "some"
                           THEN /\ Len(bumps[post_rkey]) < MaxLikes
                                /\ likes_accumulator' = increase(likes_accumulator, post_rkey)
                                /\ bumps' = [bumps EXCEPT ![post_rkey] = Append(@, 1)]
                                /\ accepted' = [accepted EXCEPT ![post_rkey] = @ + 1]
                           ELSE UNCHANGED <<likes_accumulator, bumps, accepted>>
    /\ UNCHANGED <<bin, posts_sent, ids_in, posts_vars, pal_vars, likes_vars, emitted, seen>>

\* CommitEvent::Delete with commit.collection == post_collection: the
\* document is deleted from the index at once
PalDeletePost ==
    /\ bin = "posts-and-likes" /\ status = "running"
    /\ \E e \in PostDeleteEvents(Keys), r \in Results :
           /\ event' = e
           /\ calls' = <<Call("delete_document", e.rkey, r)>>
           /\ status' = IF r # "ok" THEN "failed" ELSE "running"
    /\ NotDrained
    /\ UNCHANGED <<bin, posts_sent, ids_in, likes_accumulator, bumps, posts_vars, pal_vars, likes_vars,
                   accepted, emitted, seen>>

\* mutant: the Delete of a like decrements the accumulator, as in the code
\* that is commented out
PalIgnored_decrease ==
    /\ bin = "posts-and-likes" /\ status = "running"
    /\ \E e \in NonCommitEvents \cup OtherRecordEvents \cup OtherDeleteEvents :
           /\ event' = e
           /\ likes_accumulator' =
                  IF e.kind = "delete" /\ e.collection = like_collection
                  THEN decrease(likes_accumulator, "p1") ELSE likes_accumulator
    /\ calls' = <<>>
    /\ NotDrained
    /\ UNCHANGED <<bin, posts_sent, status, ids_in, bumps, posts_vars, pal_vars,
                   likes_vars, accepted, emitted, seen>>

\* every other event: not a Commit, a Create/Update of another record, a
\* Delete of a like or of another collection
PalIgnored ==
    /\ bin = "posts-and-likes" /\ status = "running"
    /\ \E e \in NonCommitEvents \cup OtherRecordEvents \cup OtherDeleteEvents : event' = e
    /\ calls' = <<>>
    /\ NotDrained
    /\ UNCHANGED <<bin, posts_sent, status, ids_in, likes_accumulator, bumps, posts_vars, pal_vars,
                   likes_vars, accepted, emitted, seen>>

\* receiver.recv_async() returns Err: the loop ends and main returns Ok(())
PalClose ==
    /\ bin = "posts-and-likes" /\ status = "running"
    /\ status' = "closed"
    /\ event' = NoEvent
    /\ calls' = <<>>
    /\ NotDrained
    /\ UNCHANGED <<bin, posts_sent, ids_in, likes_accumulator, bumps, posts_vars, pal_vars, likes_vars,
                   accepted, emitted, seen>>

InitPal == InitOf("posts-and-likes") /\ ids_in = LikesAccumulator_default

NextPal == PalPost \/ PalLike \/ PalDeletePost \/ PalIgnored \/ PalClose

SpecPal == InitPal /\ [][NextPal]_vars

\* C4: the accumulator is drained, and its edit operations are sent, in
\* exactly the steps that complete a primary upsert batch and bring the count
\* of completed batches to a multiple of 500.
C4_DrainCadence ==
    bin = "posts-and-likes" =>
        LET primary == calls # <<>> /\ calls[1].op = "add_or_update" /\ calls[1].result = "ok"
            nth == primary /\ cache_sent % DrainAt = 0
        IN  /\ nth => flushed
            /\ (\E i \in DOMAIN calls : calls[i].op = "edit") => nth

\* C5: a call that returns an error status or a connection error is the last
\* call the process makes, and the process ends with an error.
C5_FailuresFatal ==
    bin = "posts-and-likes" =>
        \A i \in DOMAIN calls :
           calls[i].result \in {"status", "conn"} =>
              status = "failed" /\ i = Len(calls)

\* the events the claim calls unrecognized or malformed
SoftIgnored(e) ==
    \/ e \in NonCommitEvents \cup OtherRecordEvents
    \/ e.kind = "delete" /\ e.collection = other_collection
    \/ e \in LikeEvents /\ rsplit_once(e.subject) = <<>>

\* C6: a step that receives an event of an unrecognized type, or a like whose
\* subject uri has no '/', makes no call, leaves the accumulator, the caches
\* and the counters unchanged, and the loop goes on.
C6_SoftIgnore ==
    [][(status = "running" /\ SoftIgnored(event')) =>
          /\ status' = "running"
          /\ calls' = <<>>
          /\ UNCHANGED <<likes_accumulator, pal_cache, cache_sent, cache, outdated, redis>>]_vars

\* C11: a drain leaves the accumulator empty, whether or not the sends that
\* follow succeed, and for every key the sum of the diffs of all the edit
\* requests ever sent for it never exceeds the number of like events accepted
\* for it.
C11_AtMostOnce ==
    bin = "posts-and-likes" =>
        /\ flushed => likes_accumulator = LikesAccumulator_default
        /\ \A k \in Keys : emitted[k] <= accepted[k]

\* the drain was triggered again by the event after the one that emitted two
\* likes of a key: nothing was sent the second time
C11_Witness ==
    /\ bin = "posts-and-likes" /\ status = "running"
    /\ flushed /\ cache_sent = DrainAt /\ pal_cache # <<>>
    /\ calls = <<>>
    /\ \E k \in Keys : emitted[k] = 2 /\ accepted[k] = 2

\* a send failed part-way through a drain: the accumulator is empty and a
\* drained key was never sent
C11_WitnessFailed ==
    /\ bin = "posts-and-likes" /\ status = "failed" /\ flushed
    /\ calls[Len(calls)].op = "edit"
    /\ likes_accumulator = LikesAccumulator_default
    /\ \E k \in AllIds(flushed_likes) : emitted[k] = 0

\* a step in which no call returns an error and nothing panics
NoFailure ==
    /\ status' = "running"
    /\ \A i \in DOMAIN calls' : calls'[i].result \in {"ok", "found", "not_found"}

PalPostOk == PalPost /\ NoFailure

PalLikeOk == PalLike /\ NoFailure

\* posts-and-likes.rs on a stream of post and like events, while the
\* subscription stays open and no call fails
NextPalLive == PalPostOk \/ PalLikeOk

\* post events keep arriving: recv_async keeps returning post events, each of
\* which the loop handles to its end
SpecPalLive == InitPal /\ [][NextPalLive]_vars /\ WF_vars(PalPostOk)

\* key k is listed by an edit request of the last step
EditSent(k) ==
    \E i \in DOMAIN calls : calls[i].op = "edit" /\ k \in FilterKeys(calls[i].arg.filter)

\* C17: while post events keep arriving and no call fails, every key the
\* accumulator holds is eventually listed by an edit request that is sent.
C17_EventualEmission ==
    \A k \in Keys : (k \in AllIds(likes_accumulator)) ~> EditSent(k)

\* a like was accepted after the flush counter passed 500
C17_WitnessLate ==
    /\ bin = "posts-and-likes" /\ status = "running"
    /\ cache_sent > DrainAt
    /\ AllIds(likes_accumulator) # {}

\* C18: when the last event handled was the delete of post k, a successful
\* upsert of the next step carries no document of k that was cached before
\* that delete
\* (the documents cached before the step are the first Len(pal_cache) of the
\* batch).
C18_DeleteSupersedes ==
    [][(bin = "posts-and-likes" /\ status = "running"
           /\ event.kind = "delete" /\ event.collection = post_collection) =>
          \A i \in DOMAIN calls' :
             (calls'[i].op = "add_or_update" /\ calls'[i].result = "ok") =>
                \A j \in 1..Len(pal_cache) : calls'[i].arg[j].rkey # event.rkey]_vars

\* the last step completed a primary flush
PrimaryFlush ==
    calls # <<>> /\ calls[1].op = "add_or_update" /\ calls[1].result = "ok"

\* C22: in posts-and-likes.rs a step on a like event leaves the primary cache
\* and the flush counter unchanged and makes no call but the lookup; a step on
\* a post create/update event either drains the accumulator, leaving it
\* empty, or leaves it unchanged, and it leaves it unchanged whenever it does
\* not drain, a primary flush included.
C22_ChannelIndependence ==
    [][bin = "posts-and-likes" =>
          /\ event' \in LikeEvents =>
                 /\ UNCHANGED <<pal_cache, cache_sent>>
                 /\ \A i \in DOMAIN calls' : calls'[i].op = "get_document"
          /\ event' \in PostEvents(Keys, Texts) =>
                 /\ flushed' => likes_accumulator' = LikesAccumulator_default
                 /\ ~flushed' => UNCHANGED <<likes_accumulator, bumps>>]_vars

\* a primary flush alone: the batch was sent while likes are accumulated, and
\* they still are
C22_Witness ==
    /\ bin = "posts-and-likes" /\ status = "running"
    /\ event \in PostEvents(Keys, Texts)
    /\ PrimaryFlush /\ ~flushed
    /\ Len(calls) = 1
    /\ Cardinality(AllIds(likes_accumulator)) = 2

\* a like was accepted while a post is cached and batches have been sent
C22_WitnessLike ==
    /\ bin = "posts-and-likes" /\ status = "running"
    /\ event \in LikeEvents
    /\ calls # <<>> /\ calls[1].result = "found"
    /\ pal_cache # <<>> /\ cache_sent > 0

\* a post event drained an accumulator of two buckets
C22_WitnessDrain ==
    /\ bin = "posts-and-likes" /\ status = "running"
    /\ event \in PostEvents(Keys, Texts)
    /\ flushed /\ Len(editions) = 2
    /\ likes_accumulator = LikesAccumulator_default

----------------------------------------------------------------------------
(* likes.rs *)

\* what a redis command returns: Ok or an Err (connection error)
RedisResults == {"ok", "conn"}

\* mutant: a plain SET, written whether the key is absent or not
set_nx_overwrite(r, k, v) ==
    [x \in (DOMAIN r) \cup {k} |-> IF x = k THEN v ELSE r[x]]

\* redis SET key value NX: written only when the key is absent
set_nx(r, k, v) ==
    IF k \in DOMAIN r THEN r ELSE [x \in (DOMAIN r) \cup {k} |-> IF x = k THEN v ELSE r[x]]

\* redis INCRBY key 1
incr(r, k) == [r EXCEPT ![k] = @ + 1]

\* mutant: the values are returned in the reverse order of the keys
mget_reversed(r, keys) == [i \in DOMAIN keys |-> r[keys[Len(keys) + 1 - i]]]

\* redis MGET keys: the values of the keys, in the order of the keys
mget(r, keys) == [i \in DOMAIN keys |-> r[keys[i]]]

\* rkeys.into_iter().zip(values).map(|(rkey, likes)| BskyPostLikesOnly { rkey, likes })
Zip(rkeys, values) ==
    [i \in 1..Min({Len(rkeys), Len(values)}) |-> [rkey |-> rkeys[i], likes |-> values[i]]]

\* the store count seen at the first accepted like of key k
FirstSeen(sd, k, v) ==
    IF k \in DOMAIN sd THEN sd ELSE [x \in (DOMAIN sd) \cup {k} |-> IF x = k THEN v ELSE sd[x]]

\* if outdated.len() == payload_size: drain the touched keys, MGET their
\* counts, and add_or_update the (rkey, likes) documents; pre are the calls
\* the step made before
LikesFlush(out1, pre) ==
    IF Cardinality(out1) = payload_size
    THEN /\ outdated' = {}
         /\ flushed' = TRUE
         /\ \E order \in Orders(out1), rm \in RedisResults :
               LET read == Call("mget", order, rm)
                   updated == Zip(order, mget(redis', order))
               IN  IF rm # "ok"
                   THEN calls' = pre \o <<read>> /\ status' = "failed"
                   ELSE \E ru \in Results :
                           /\ calls' = pre \o <<read, Call("add_or_update", updated, ru)>>
                           /\ status' = IF ru # "ok" THEN "failed" ELSE "running"
    ELSE /\ outdated' = out1
         /\ flushed' = FALSE
         /\ calls' = pre
         /\ status' = "running"

\* CommitEvent::Create | Update with an AppBskyFeedLike record
LikesLike ==
    /\ bin = "likes" /\ status = "running"
    /\ \E e \in LikeEvents :
        LET split == rsplit_once(e.subject)
        IN  /\ event' = e
            /\ IF split = <<>>
               THEN /\ status' = "panicked"
                    /\ calls' = <<>>
                    /\ flushed' = FALSE
                    /\ UNCHANGED <<outdated, redis, accepted, seen>>
               ELSE \E lr \in LookupResults :
                    LET post_rkey == split[1]
                        get == Call("get_document", post_rkey, lr)
                    IN  IF Lookup(lr) = "err"
                        THEN /\ status' = "failed"
                             /\ calls' = <<get>>
                             /\ flushed' = FALSE
                             /\ UNCHANGED <<outdated, redis, accepted, seen>>
                        ELSE IF Lookup(lr) = "none"
                        THEN /\ redis' = redis
                             /\ UNCHANGED <<accepted, seen>>
                             /\ LikesFlush(outdated, <<get>>)
                        ELSE \E likes \in 0..MaxStoreLikes, rs \in RedisResults :
                             LET seed == Call("set_nx", <<post_rkey, likes>>, rs)
                                 inc == Call("incr", <<post_rkey, 1>>, "ok")
                             IN  /\ post_rkey \in DOMAIN redis => redis[post_rkey] < MaxCount
                                 /\ accepted' = [accepted EXCEPT ![post_rkey] = @ + 1]
                                 /\ seen' = FirstSeen(seen, post_rkey, likes)
                                 /\ IF rs # "ok"
                                    THEN /\ status' = "failed"
                                         /\ calls' = <<get, seed>>
                                         /\ flushed' = FALSE
                                         /\ outdated' = outdated \cup {post_rkey}
                                         /\ redis' = redis
                                    ELSE \/ /\ status' = "failed"
                                            /\ calls' = <<get, seed, [inc EXCEPT !.result = "conn"]>>
                                            /\ flushed' = FALSE
                                            /\ outdated' = outdated \cup {post_rkey}
                                            /\ redis' = set_nx(redis, post_rkey, likes)
                                         \/ /\ redis' = incr(set_nx(redis, post_rkey, likes), post_rkey)
                                            /\ LikesFlush(outdated \cup {post_rkey}, <<get, seed, inc>>)
    /\ UNCHANGED <<bin, posts_sent, ids_in, acc_vars, posts_vars, pal_vars, emitted>>

\* every other event: not a Commit, a Create/Update of another record, any
\* Delete (the Delete arm is empty)
LikesIgnored ==
    /\ bin = "likes" /\ status = "running"
    /\ \E e \in NonCommitEvents \cup OtherRecordEvents \cup OtherDeleteEvents
                \cup PostDeleteEvents(Keys) : event' = e
    /\ calls' = <<>>
    /\ flushed' = FALSE
    /\ UNCHANGED <<bin, posts_sent, status, ids_in, acc_vars, posts_vars, pal_vars, likes_vars, hist_vars>>

\* receiver.recv_async() returns Err: the loop ends and main returns Ok(())
LikesClose ==
    /\ bin = "likes" /\ status = "running"
    /\ status' = "closed"
    /\ event' = NoEvent
    /\ calls' = <<>>
    /\ flushed' = FALSE
    /\ UNCHANGED <<bin, posts_sent, ids_in, acc_vars, posts_vars, pal_vars, likes_vars, hist_vars>>

InitLikes == InitOf("likes") /\ ids_in = LikesAccumulator_default

NextLikes == LikesLike \/ LikesIgnored \/ LikesClose

SpecLikes == InitLikes /\ [][NextLikes]_vars

\* C13: while the loop runs, the count cache holds exactly the keys that had
\* an accepted like, and the value of each is the store count seen at the
\* key's first accepted like plus the number of likes accepted for it: a later
\* lookup with another store count does not overwrite it. In every step the
\* incr of a key directly follows the set_nx of that key.
C13_CacheSeeding ==
    bin = "likes" =>
        /\ \A i \in DOMAIN calls :
               calls[i].op = "incr" =>
                  /\ i > 1
                  /\ calls[i - 1].op = "set_nx"
                  /\ calls[i - 1].result = "ok"
                  /\ calls[i - 1].arg[1] = calls[i].arg[1]
        /\ status = "running" =>
              /\ DOMAIN redis = {k \in Keys : accepted[k] > 0}
              /\ DOMAIN seen = DOMAIN redis
              /\ \A k \in DOMAIN redis : redis[k] = seen[k] + accepted[k]

\* a second like of a key was accepted with a store count other than the one
\* seen at the first: the cache still counts from the first
C13_Witness ==
    /\ bin = "likes" /\ status = "running"
    /\ Len(calls) >= 3 /\ calls[2].op = "set_nx" /\ calls[3].op = "incr"
    /\ LET k == calls[2].arg[1]
       IN  /\ accepted[k] >= 2
           /\ calls[2].arg[2] # seen[k]
           /\ redis[k] = seen[k] + accepted[k]

\* the keys touched once the step's event is handled: those touched before and
\* the key of the like the step accepted
TouchedAfter ==
    outdated \cup (IF accepted' # accepted THEN {rsplit_once(event'.subject)[1]} ELSE {})

\* C14: a step of likes.rs that brings the touched set to payload_size keys,
\* and whose calls succeed, reads the touched keys from the count cache and
\* writes them in one add_or_update: one document per touched key, each with
\* the cache value of its own key; the touched set is empty afterwards, and
\* the count cache is what the set_nx and incr of the event made it. A step
\* that leaves the touched set below payload_size reads and writes nothing.
C14_ReadBackFlush ==
    [][bin = "likes" =>
        LET n == Len(calls')
            reads == {i \in DOMAIN calls' : calls'[i].op = "mget"}
            writes == {i \in DOMAIN calls' : calls'[i].op = "add_or_update"}
        IN  /\ (Cardinality(TouchedAfter) = payload_size /\ status' = "running") =>
                  /\ flushed'
                  /\ outdated' = {}
                  /\ reads = {n - 1} /\ writes = {n}
                  /\ Range(calls'[n - 1].arg) = TouchedAfter
                  /\ Len(calls'[n].arg) = payload_size
                  /\ {calls'[n].arg[i].rkey : i \in DOMAIN calls'[n].arg} = TouchedAfter
                  /\ \A i \in DOMAIN calls'[n].arg :
                         calls'[n].arg[i].likes = redis'[calls'[n].arg[i].rkey]
                  /\ calls'[2].op = "set_nx" /\ calls'[3].op = "incr"
                  /\ redis' = incr(set_nx(redis, calls'[2].arg[1], calls'[2].arg[2]),
                                   calls'[3].arg[1])
            /\ Cardinality(TouchedAfter) # payload_size =>
                  /\ ~flushed'
                  /\ reads = {} /\ writes = {}
                  /\ outdated' = TouchedAfter]_vars

\* a flush wrote two keys whose cache values differ, each with its own value
C14_Witness ==
    /\ bin = "likes" /\ flushed /\ status = "running" /\ outdated = {}
    /\ LET docs == calls[Len(calls)].arg
       IN  /\ calls[Len(calls)].op = "add_or_update"
           /\ Len(docs) = payload_size
           /\ docs[1].likes # docs[2].likes
           /\ \A i \in DOMAIN docs : docs[i].likes = redis[docs[i].rkey]

----------------------------------------------------------------------------
(* main.rs: the unbatched pipeline *)

\* the events the subscription can deliver
MainEvents ==
    NonCommitEvents \cup PostEvents(PostKeys, Texts) \cup LikeEvents \cup OtherRecordEvents
        \cup PostDeleteEvents(PostKeys) \cup OtherDeleteEvents

\* mutant: an Update takes the arm of Create
IsCreatedPost_or_updated(e) ==
    e.kind \in {"create", "update"} /\ e.collection = post_collection

\* CommitEvent::Create { .. } whose record is an AppBskyFeedPost
IsCreatedPost(e) == e.kind = "create" /\ e.collection = post_collection

\* the BskyPost of main.rs built from the commit: its cid (the content id of
\* the record, here the record's key and text) and its text
MainBskyPost(e) == [cid |-> <<e.rkey, e.text>>, text |-> e.text]

\* CommitEvent::Create with an AppBskyFeedPost record: add_documents of the
\* one post, awaited, then posts_sent += 1
MainCreate ==
    /\ bin = "main" /\ status = "running"
    /\ posts_sent < MaxPostsSent
    /\ \E e \in MainEvents, r \in Results :
           /\ IsCreatedPost(e)
           /\ event' = e
           /\ calls' = <<Call("add_documents", <<MainBskyPost(e)>>, r)>>
           /\ status' = IF r # "ok" THEN "failed" ELSE "running"
           /\ posts_sent' = IF r = "ok" THEN posts_sent + 1 ELSE posts_sent
    /\ UNCHANGED <<bin, flushed, ids_in, acc_vars, posts_vars, pal_vars, likes_vars,
                   hist_vars>>

\* every other event: not a Commit, a Create of another record, an Update, a
\* Delete (the arm `_ => ()`)
MainIgnored ==
    /\ bin = "main" /\ status = "running"
    /\ \E e \in MainEvents :
           /\ ~IsCreatedPost(e)
           /\ event' = e
    /\ calls' = <<>>
    /\ UNCHANGED <<bin, posts_sent, status, flushed, ids_in, acc_vars, posts_vars, pal_vars,
                   likes_vars, hist_vars>>

\* receiver.recv_async() returns Err: the loop ends and main returns Ok(())
MainClose ==
    /\ bin = "main" /\ status = "running"
    /\ status' = "closed"
    /\ event' = NoEvent
    /\ calls' = <<>>
    /\ UNCHANGED <<bin, posts_sent, flushed, ids_in, acc_vars, posts_vars, pal_vars,
                   likes_vars, hist_vars>>

InitMain == InitOf("main") /\ ids_in = LikesAccumulator_default

NextMain == MainCreate \/ MainIgnored \/ MainClose

SpecMain == InitMain /\ [][NextMain]_vars

\* C23: in main.rs a step that receives the create of a post makes exactly
\* one call, the add_documents of the one document of that post; a step that
\* receives an update or a delete makes no call and changes neither the
\* counter nor the state of the loop.
C23_Unbatched ==
    [][bin = "main" =>
          /\ (event'.kind = "create" /\ event'.collection = post_collection) =>
                 /\ Len(calls') = 1
                 /\ calls'[1].op = "add_documents"
                 /\ calls'[1].arg = <<MainBskyPost(event')>>
          /\ event'.kind \in {"update", "delete"} =>
                 /\ calls' = <<>>
                 /\ status' = "running"
                 /\ UNCHANGED posts_sent]_vars

\* the second create of the same post was sent on its own again
C23_Witness ==
    /\ bin = "main" /\ status = "running"
    /\ posts_sent = 2
    /\ event.kind = "create" /\ event.collection = post_collection /\ event.rkey = "p1"
    /\ Len(calls) = 1 /\ calls[1].op = "add_documents" /\ calls[1].result = "ok"
    /\ calls[1].arg[1].cid[1] = "p1"

\* an update and a delete of a post were received after a post was sent
C23_WitnessUpdate ==
    /\ bin = "main" /\ status = "running" /\ posts_sent = 1
    /\ event.kind = "update" /\ event.collection = post_collection
    /\ calls = <<>>

C23_WitnessDelete ==
    /\ bin = "main" /\ status = "running" /\ posts_sent = 1
    /\ event.kind = "delete" /\ event.collection = post_collection
    /\ calls = <<>>

----------------------------------------------------------------------------
(* The three binaries together: one of them runs *)

Init == InitPosts \/ InitPal \/ InitLikes

Next == NextPosts \/ NextPal \/ NextLikes

Spec == Init /\ [][Next]_vars

\* the last step was a like event whose lookup answered DocumentNotFound
SoftMiss ==
    /\ event \in LikeEvents
    /\ calls # <<>>
    /\ calls[1].op = "get_document"
    /\ calls[1].result = "not_found"

\* C8: a like event whose lookup answers not-found makes no other call (no
\* set_nx, no incr, no flush), leaves the touched set, the count cache, the
\* accumulator and its recorded bumps unchanged, and the loop goes on.
C8_SoftMiss ==
    [][(bin \in {"likes", "posts-and-likes"} /\ SoftMiss') =>
          /\ status' = "running"
          /\ Len(calls') = 1
          /\ UNCHANGED <<outdated, redis, likes_accumulator, bumps, pal_cache, cache_sent>>]_vars

\* likes.rs: a not-found lookup for a key, while another key is touched and
\* cached, left the key out of the touched set and of the count cache
C8_Witness ==
    /\ bin = "likes" /\ SoftMiss /\ status = "running"
    /\ outdated # {} /\ calls[1].arg \notin outdated
    /\ DOMAIN redis # {} /\ calls[1].arg \notin DOMAIN redis

\* posts-and-likes.rs: a not-found lookup for a key, while another key is
\* accumulated, left the key out of the accumulator
C8_WitnessPal ==
    /\ bin = "posts-and-likes" /\ SoftMiss /\ status = "running"
    /\ AllIds(likes_accumulator) # {}
    /\ calls[1].arg \notin AllIds(likes_accumulator)

\* a Delete event of the like collection
LikeDelete(e) == e.kind = "delete" /\ e.collection = like_collection

\* C15: in likes.rs and posts-and-likes.rs a step that receives a delete event
\* of the like collection makes no call, leaves the accumulator, the touched
\* set, the count cache, the primary cache and the flush counter unchanged,
\* and the loop goes on.
C15_LikeDeleteNotApplied ==
    [][(bin \in {"likes", "posts-and-likes"} /\ status = "running" /\ LikeDelete(event')) =>
          /\ status' = "running"
          /\ calls' = <<>>
          /\ UNCHANGED <<likes_accumulator, bumps, outdated, redis, pal_cache, cache_sent,
                         accepted, emitted>>]_vars

\* posts-and-likes.rs received the delete of a like while a like is
\* accumulated and a post is cached
C15_Witness ==
    /\ bin = "posts-and-likes" /\ status = "running" /\ LikeDelete(event)
    /\ AllIds(likes_accumulator) # {}
    /\ pal_cache # <<>>
    /\ calls = <<>>

\* likes.rs received the delete of a like while a key is touched and cached
C15_WitnessLikes ==
    /\ bin = "likes" /\ status = "running" /\ LikeDelete(event)
    /\ outdated # {} /\ DOMAIN redis # {}
    /\ calls = <<>>

\* what is pending when the loop ends
Pending == <<cache, pal_cache, outdated, likes_accumulator>>

\* C16: every step is taken by a running loop, and the loop stops running in
\* two ways only: the subscription closes, and then the process exits with
\* Ok, having made no call and with its pending entries as they were; or the
\* last call it made returned an error, and then it exits with that error.
C16_Termination ==
    [][/\ status = "running"
       /\ status' # "running" =>
             \/ /\ status' = "closed"
                /\ calls' = <<>>
                /\ UNCHANGED Pending
             \/ /\ status' = "failed"
                /\ calls' # <<>>
                /\ calls'[Len(calls')].result # "ok"]_vars

\* the part of C16 about the closed subscription: the process exits with Ok,
\* makes no call and flushes nothing that is pending
C16_CloseWithoutFlush ==
    [][status' = "closed" =>
          /\ status = "running"
          /\ event' = NoEvent
          /\ calls' = <<>>
          /\ UNCHANGED Pending]_vars

\* the subscription closed while entries were pending
C16_WitnessPending ==
    /\ status = "closed" /\ calls = <<>>
    /\ \/ bin = "posts" /\ DOMAIN cache # {}
       \/ bin = "posts-and-likes" /\ pal_cache # <<>> /\ AllIds(likes_accumulator) # {}
       \/ bin = "likes" /\ outdated # {}

\* the part of C19 about the batches that are flushed at payload_size: after
\* every fully processed event the coalescer of posts.rs, the touched set of
\* likes.rs and the cache of posts-and-likes.rs hold fewer than payload_size
\* entries
C19_PrimaryBounded ==
    status = "running" =>
        /\ Cardinality(DOMAIN cache) < payload_size
        /\ Cardinality(outdated) < payload_size
        /\ Len(pal_cache) < payload_size

\* C19: after every fully processed event the coalescer, the touched set and
\* the primary cache hold fewer than payload_size entries, and so does the
\* like accumulator of posts-and-likes.rs.
C19_BoundedPending ==
    status = "running" =>
        /\ Cardinality(DOMAIN cache) < payload_size
        /\ Cardinality(outdated) < payload_size
        /\ Len(pal_cache) < payload_size
        /\ Cardinality(AllIds(likes_accumulator)) < payload_size

\* the accumulator holds every key there is, after the flush counter passed
\* the only value at which it is drained
C19_WitnessUndrained ==
    /\ bin = "posts-and-likes" /\ status = "running"
    /\ cache_sent > DrainAt
    /\ AllIds(likes_accumulator) = Keys

====
